---- MODULE Spec2Model ----
(***************************************************************************)
(* A model of kitsune/users/auth.py: the token login backend               *)
(* (TokenLoginBackend, get_auth_str) and the two OIDC callback backends    *)
(* (SumoOIDCAuthBackend, FXAAuthBackend).                                  *)
(*                                                                         *)
(* Text is a sequence of byte values; base64 text is a sequence of         *)
(* alphabet indices 0..63, with Pad for '=' and Skip for a character       *)
(* outside the alphabet.                                                   *)
(***************************************************************************)
EXTENDS Integers, Sequences, FiniteSets, TLC

(***************************************************************************)
(* Bounds of the token model.                                              *)
(***************************************************************************)
MaxPlainLen == 2
MaxPw == 1
MaxLogin == 1
MaxIssued == 2

(***************************************************************************)
(* Characters.                                                             *)
(***************************************************************************)
Colon == 58
Dash == 45
Zero == 48
LetterA == 97
Pad == 64
Skip == 65

TUsers == {1, 2}

\* The username of token user u: "a", "b", ...
username(u) == <<LetterA + u - 1>>

Pow2(n) == CASE n = 0 -> 1 [] n = 2 -> 4 [] n = 4 -> 16 [] n = 6 -> 64 [] OTHER -> 256

(***************************************************************************)
(* base64.b64encode: three bytes become four alphabet indices, a final     *)
(* group of one or two bytes is padded with '='.                           *)
(***************************************************************************)
RECURSIVE b64encode(_)
b64encode(s) ==
  IF Len(s) = 0 THEN <<>>
  ELSE IF Len(s) = 1 THEN
    <<s[1] \div 4, (s[1] % 4) * 16, Pad, Pad>>
  ELSE IF Len(s) = 2 THEN
    <<s[1] \div 4, (s[1] % 4) * 16 + s[2] \div 16, (s[2] % 16) * 4, Pad>>
  ELSE
    <<s[1] \div 4, (s[1] % 4) * 16 + s[2] \div 16,
      (s[2] % 16) * 4 + s[3] \div 64, s[3] % 64>>
    \o b64encode(SubSeq(s, 4, Len(s)))

\* binascii_find_valid(s, 1): the next alphabet or pad character after
\* position i, or -1.
RECURSIVE NextValid(_, _)
NextValid(s, i) ==
  IF i > Len(s) THEN -1
  ELSE IF s[i] # Skip THEN s[i]
  ELSE NextValid(s, i + 1)

(***************************************************************************)
(* binascii.a2b_base64, which base64.b64decode calls: characters outside   *)
(* the alphabet are skipped, a pad sequence ends the input, and bits left  *)
(* over at the end are "Incorrect padding" (ok = FALSE).                   *)
(***************************************************************************)
RECURSIVE a2b_base64(_, _, _, _, _, _)
a2b_base64(s, i, quad_pos, leftchar, leftbits, out) ==
  IF i > Len(s) THEN [ok |-> leftbits = 0, data |-> out]
  ELSE IF s[i] = Skip THEN a2b_base64(s, i + 1, quad_pos, leftchar, leftbits, out)
  ELSE IF s[i] = Pad THEN
    IF quad_pos < 2 \/ (quad_pos = 2 /\ NextValid(s, i + 1) # Pad)
    THEN a2b_base64(s, i + 1, quad_pos, leftchar, leftbits, out)
    ELSE [ok |-> TRUE, data |-> out]
  ELSE
    LET q == (quad_pos + 1) % 4
        lc == leftchar * 64 + s[i]
        lb == leftbits + 6
    IN IF lb >= 8
       THEN a2b_base64(s, i + 1, q, lc % Pow2(lb - 8), lb - 8,
                       Append(out, (lc \div Pow2(lb - 8)) % 256))
       ELSE a2b_base64(s, i + 1, q, lc, lb, out)

\* base64.b64decode: ok = FALSE stands for the TypeError it raises.
b64decode(s) == a2b_base64(s, 1, 0, 0, 0, <<>>)

\* decoded.split(':')
RECURSIVE split(_)
split(s) ==
  IF \A i \in 1..Len(s) : s[i] # Colon THEN <<s>>
  ELSE LET k == CHOOSE i \in 1..Len(s) :
                   s[i] = Colon /\ \A j \in 1..(i - 1) : s[j] # Colon
       IN <<SubSeq(s, 1, k - 1)>> \o split(SubSeq(s, k + 1, Len(s)))


(***************************************************************************)
(* State.  Token login: each user's password and last-login generation,    *)
(* the credentials handed out by get_auth_str, and the outcome of the last *)
(* TokenLoginBackend.authenticate call.                                    *)
(***************************************************************************)
VARIABLES password, last_login, issued, tlast

tvars == <<password, last_login, issued, tlast>>

\* default_token_generator.make_token(user): as the backend's docstring
\* says, the token is bound to the user, the password and the last login.
make_token(u) == <<Zero + u, Zero + password[u], Dash, Zero + last_login[u]>>

\* default_token_generator.check_token(user, token)
check_token(u, token) == token = make_token(u)

\* get_auth_str(user): base64 of '{username}:{token}'.
get_auth_str(u) == b64encode(username(u) \o <<Colon>> \o make_token(u))

NoUser == 0

authenticate_anyuser(auth) ==
  LET d == b64decode(auth) IN
  IF ~d.ok THEN [outcome |-> "none", user |-> NoUser]
  ELSE IF \A i \in 1..Len(d.data) : d.data[i] # Colon
    THEN [outcome |-> "none", user |-> NoUser]
  ELSE LET parts == split(d.data) IN
    IF Len(parts) # 2 THEN [outcome |-> "raised", user |-> NoUser]
    ELSE IF \A u \in TUsers : username(u) # parts[1]
      THEN [outcome |-> "none", user |-> NoUser]
    ELSE LET user == CHOOSE u \in TUsers : username(u) = parts[1] IN
      [outcome |-> "user", user |-> user]

\* TokenLoginBackend.authenticate(auth).  "raised" is the ValueError of
\* `username, token = decoded.split(':')` when the split does not give
\* exactly two parts.
authenticate(auth) ==
  LET d == b64decode(auth) IN
  IF ~d.ok THEN [outcome |-> "none", user |-> NoUser]
  ELSE IF \A i \in 1..Len(d.data) : d.data[i] # Colon
    THEN [outcome |-> "none", user |-> NoUser]
  ELSE LET parts == split(d.data) IN
    IF Len(parts) # 2 THEN [outcome |-> "raised", user |-> NoUser]
    ELSE IF \A u \in TUsers : username(u) # parts[1]
      THEN [outcome |-> "none", user |-> NoUser]
    ELSE LET user == CHOOSE u \in TUsers : username(u) = parts[1] IN
      IF check_token(user, parts[2])
      THEN [outcome |-> "user", user |-> user]
      ELSE [outcome |-> "none", user |-> NoUser]

(***************************************************************************)
(* The credential strings tried against authenticate: every text of up to  *)
(* MaxPlainLen characters encoded, each also with its last character cut   *)
(* off and with a character outside the alphabet put in front, and every   *)
(* issued credential, whole and cut.                                       *)
(***************************************************************************)
PlainAlphabet == {Colon, LetterA}

Plain == UNION {[1..n -> PlainAlphabet] : n \in 0..MaxPlainLen}

CutLast(s) == IF Len(s) = 0 THEN s ELSE SubSeq(s, 1, Len(s) - 1)

Variants(a) == {a, CutLast(a), <<Skip>> \o a}

Credentials == UNION {Variants(b64encode(p)) : p \in Plain}
               \cup UNION {Variants(c.auth) : c \in issued}

NoAuth == [auth |-> <<>>, outcome |-> "idle", user |-> NoUser]

TokenInit ==
  /\ password = [u \in TUsers |-> 0]
  /\ last_login = [u \in TUsers |-> 0]
  /\ issued = {}
  /\ tlast = NoAuth

\* get_auth_str(u) is called and the credential handed out; n counts the
\* credentials issued to u before it.  At most MaxIssued credentials are
\* handed out in all.
IssueToken(u) ==
  /\ tlast = NoAuth
  /\ Cardinality(issued) < MaxIssued
  /\ issued' = issued \cup
       {[user |-> u, auth |-> get_auth_str(u),
         n |-> Cardinality({c \in issued : c.user = u}),
         password |-> password[u], last_login |-> last_login[u]]}
  /\ UNCHANGED <<password, last_login, tlast>>

\* TokenLoginBackend.authenticate(auth) is called.
Authenticate(auth) ==
  /\ tlast = NoAuth
  /\ tlast' = [auth |-> auth] @@ authenticate(auth)
  /\ UNCHANGED <<password, last_login, issued>>

\* The caller has the result: the call is over.
Return ==
  /\ tlast # NoAuth
  /\ tlast' = NoAuth
  /\ UNCHANGED <<password, last_login, issued>>

\* The user logs in: the login records a new last-login time.
Login(u) ==
  /\ tlast = NoAuth
  /\ last_login[u] < MaxLogin
  /\ last_login' = [last_login EXCEPT ![u] = @ + 1]
  /\ UNCHANGED <<password, issued, tlast>>

\* The user's password changes.
ChangePassword(u) ==
  /\ tlast = NoAuth
  /\ password[u] < MaxPw
  /\ password' = [password EXCEPT ![u] = @ + 1]
  /\ UNCHANGED <<last_login, issued, tlast>>



(***************************************************************************)
(* Firefox Accounts login.  Bounds: the user ids, the FxA uids and the     *)
(* email addresses are 1..Max; NProducts catalog products, product p with  *)
(* codename p, and one more codename that names no product.                *)
(***************************************************************************)
MaxUsers == 2
NUids == 2
NEmails == 2
NProducts == 1

UserIds == 1..MaxUsers
Anonymous == 0
\* claims.get('uid') of claims without a uid
NoUid == 0
Uids == 1..NUids
Emails == 1..NEmails
Products == 1..NProducts
Codenames == 1..(NProducts + 1)
\* Avatar and display name values: 0 is the empty string
Texts == {0, 1}
\* What a claims dictionary holds of 'subscriptions'; an absent key reads
\* as its default.
SubscriptionClaims ==
  {[present |-> FALSE, codes |-> {}]}
  \cup {[present |-> TRUE, codes |-> c] : c \in SUBSET Codenames}

\* The claims of an FxA profile: the avatar and the display name are both
\* given or both left out.
Claims == {[uid |-> i, email |-> e, avatar |-> t, displayName |-> t,
            subscriptions |-> s] :
            i \in Uids \cup {NoUid}, e \in Emails, t \in Texts,
            s \in SubscriptionClaims}

\* Where a database write of update_user may fail
FailPoints == {"none", "clear", "add", "user_save", "profile_save"}

VARIABLES users, email, is_staff, profile, session_next, call

fvars == <<users, email, is_staff, profile, session_next, call>>

NoProfile == [is_fxa_migrated |-> FALSE, fxa_uid |-> NoUid, fxa_avatar |-> 0,
              name |-> 0, products |-> {}]

\* Product.objects.filter(codename__in=subscriptions)
ProductsNamed(codes) == {p \in Products : p \in codes}

\* claims.get('subscriptions', [])
subscriptions_of(claims) ==
  IF claims.subscriptions.present THEN claims.subscriptions.codes ELSE {}

\* The base class's filter_users_by_claims: the users with the claimed email.
base_filter_users_by_claims(claims) == {u \in users : email[u] = claims.email}

filter_users_by_claims_email_only(claims, ruser) ==
  IF claims.uid = NoUid THEN {}
  ELSE IF ruser # Anonymous THEN {ruser}
  ELSE base_filter_users_by_claims(claims)

\* FXAAuthBackend.filter_users_by_claims; ruser is request.user, Anonymous
\* when it is not authenticated.
filter_users_by_claims(claims, ruser) ==
  IF claims.uid = NoUid THEN {}
  ELSE IF ruser # Anonymous THEN {ruser}
  ELSE LET by_uid == {u \in users : profile[u].fxa_uid = claims.uid} IN
    IF by_uid # {} THEN by_uid ELSE base_filter_users_by_claims(claims)

\* The outcome of a call: what it returned, the database after it, the
\* session's redirect hint and the messages it posted.
Outcome(result, user, us, em, st, pr, next, msgs) ==
  [result |-> result, user |-> user, users |-> us, email |-> em,
   is_staff |-> st, profile |-> pr, session_next |-> next, msgs |-> msgs]

\* FXAAuthBackend.create_user.  The new user gets the first free id.
create_user(claims) ==
  LET user == CHOOSE u \in UserIds \ users : \A v \in UserIds \ users : u <= v
      p == [is_fxa_migrated |-> TRUE, fxa_uid |-> claims.uid,
            fxa_avatar |-> claims.avatar, name |-> claims.displayName,
            products |-> ProductsNamed(subscriptions_of(claims))]
  IN Outcome("user", user, users \cup {user},
             [email EXCEPT ![user] = claims.email],
             [is_staff EXCEPT ![user] = FALSE],
             [profile EXCEPT ![user] = p],
             "edit_profile", <<"fxa_notification_created">>)

uid_conflict_unchecked(user, claims) == FALSE

\* update_user, the migration block's check: the profile is not migrated
\* and Profile.objects.filter(fxa_uid=fxa_uid).exists().
uid_conflict(user, claims) ==
  /\ ~profile[user].is_fxa_migrated
  /\ \E u \in users : profile[u].fxa_uid = claims.uid

\* update_user: user.email != email and not user.is_staff
email_differs(user, claims) ==
  email[user] # claims.email /\ ~is_staff[user]

email_conflict_unchecked(user, claims) == FALSE

\* update_user, the email block's check:
\* User.objects.exclude(id=user.id).filter(email=email).exists()
email_conflict(user, claims) ==
  /\ email_differs(user, claims)
  /\ \E u \in users \ {user} : email[u] = claims.email

merged_products(old, claims) ==
  old \cup ProductsNamed(subscriptions_of(claims))

\* update_user: profile.products.clear(); profile.products.add(*products)
replaced_products(old, claims) == ProductsNamed(subscriptions_of(claims))

saved_email_unrolled(user, claims, fail) ==
  IF email_differs(user, claims) /\ fail \in {"none", "profile_save"}
  THEN [email EXCEPT ![user] = claims.email] ELSE email

\* update_user, the transaction: the user's email as the database holds it
\* after `with transaction.atomic()`, whose writes are undone when one of
\* them fails.
saved_email(user, claims, fail) ==
  IF email_differs(user, claims) /\ fail = "none"
  THEN [email EXCEPT ![user] = claims.email] ELSE email

\* FXAAuthBackend.update_user.  fail names the database write that raises,
\* if one does; the writes before it stay, but for those of the
\* transaction.
update_user(user, claims, fail) ==
  LET p0 == profile[user]
      linking == ~p0.is_fxa_migrated
      \* the profile object after the migration block
      p1 == IF linking
            THEN [p0 EXCEPT !.is_fxa_migrated = TRUE, !.fxa_uid = claims.uid]
            ELSE p0
      next1 == IF linking THEN "edit_profile" ELSE session_next
      msgs1 == IF linking THEN <<"fxa_notification_updated">> ELSE <<>>
      products == replaced_products(p0.products, claims)
      \* the profile object as profile.save() writes it
      p2 == [p1 EXCEPT !.fxa_avatar = claims.avatar,
                       !.name = IF p1.name = 0 THEN claims.displayName ELSE @,
                       !.products = products]
      \* the database after profile.products.clear() and after .add()
      cleared == [profile EXCEPT ![user].products = {}]
      added == [profile EXCEPT ![user].products = products]
      em == saved_email(user, claims, fail)
  IN
  IF uid_conflict(user, claims)
    THEN Outcome("none", user, users, email, is_staff, profile,
                 session_next, <<"error_uid_used">>)
  ELSE IF email_conflict(user, claims)
    THEN Outcome("none", user, users, email, is_staff, profile,
                 next1, Append(msgs1, "error_email_used"))
  ELSE IF fail = "clear"
    THEN Outcome("raised", user, users, email, is_staff, profile, next1, msgs1)
  ELSE IF fail = "add"
    THEN Outcome("raised", user, users, email, is_staff, cleared, next1, msgs1)
  ELSE IF fail \in {"user_save", "profile_save"}
    THEN Outcome("raised", user, users, em, is_staff, added, next1, msgs1)
  ELSE Outcome("user", user, users, em, is_staff,
               [profile EXCEPT ![user] = p2], next1, msgs1)

NoCall == [op |-> "none", request_user |-> Anonymous,
           claims_uid |-> NoUid, claims_email |-> 0,
           subscriptions |-> [present |-> FALSE, codes |-> {}],
           fail |-> "none", user |-> Anonymous,
           before |-> [email |-> 0, profile |-> NoProfile],
           result |-> "none", msgs |-> <<>>]

FxaInit ==
  /\ users = {1}
  /\ email = [u \in UserIds |-> IF u = 1 THEN 1 ELSE 0]
  /\ is_staff \in {[u \in UserIds |-> u = 1 /\ b] : b \in BOOLEAN}
  /\ profile = [u \in UserIds |-> NoProfile]
  /\ session_next = "next"
  /\ call = NoCall

\* The call is recorded with the state it leaves; `before` is the email
\* and the profile of the user it was about when it began.
Record(op, ruser, claims, fail, o) ==
  /\ users' = o.users
  /\ email' = o.email
  /\ is_staff' = o.is_staff
  /\ profile' = o.profile
  /\ session_next' = o.session_next
  /\ call' = [op |-> op, request_user |-> ruser, claims_uid |-> claims.uid,
              claims_email |-> claims.email,
              subscriptions |-> claims.subscriptions, fail |-> fail,
              user |-> o.user,
              before |-> IF o.user \in users
                         THEN [email |-> email[o.user],
                               profile |-> profile[o.user]]
                         ELSE NoCall.before,
              result |-> o.result, msgs |-> o.msgs]

\* One FxA authentication attempt once the claims are known: the base
\* class's get_or_create_user resolves the user with
\* filter_users_by_claims, then updates the one user found or creates one.
\* More than one candidate is the base class's SuspiciousOperation.
Resolve(ruser, claims, fail) ==
  /\ call = NoCall
  /\ LET found == filter_users_by_claims(claims, ruser) IN
     IF Cardinality(found) = 1 THEN
       LET user == CHOOSE u \in found : TRUE IN
       /\ fail = "user_save" => email_differs(user, claims)
       /\ Record("update_user", ruser, claims, fail,
                 update_user(user, claims, fail))
     ELSE IF Cardinality(found) > 1 THEN
       /\ fail = "none"
       /\ Record("multiple", ruser, claims, fail,
                 Outcome("raised", Anonymous, users, email, is_staff,
                         profile, session_next, <<>>))
     ELSE
       /\ fail = "none"
       /\ users # UserIds
       /\ Record("create_user", ruser, claims, fail, create_user(claims))

\* The response is sent: the request is over.
Respond ==
  /\ call # NoCall
  /\ call' = NoCall
  /\ UNCHANGED <<users, email, is_staff, profile, session_next>>

\* A login begins: the login view stores where to go after it in the
\* session.
StartLogin ==
  /\ call = NoCall
  /\ session_next # "next"
  /\ session_next' = "next"
  /\ UNCHANGED <<users, email, is_staff, profile, call>>

(***************************************************************************)
(* The callback: the framework hands the request to both OIDC backends,    *)
(* and the backend that goes on fetches the user info.                     *)
(***************************************************************************)
\* django_reverse('oidc_authentication_callback')
OidcCallback == "/oidc/callback/"
Paths == {OidcCallback, "/fxa/callback/"}

\* authenticate(request): request is None (present = FALSE) or has a path.
Requests == {[present |-> FALSE, path |-> ""]}
            \cup {[present |-> TRUE, path |-> p] : p \in Paths}

\* What the subscription endpoint answers: no answer, an HTTP error
\* status, a body that is not JSON, or a JSON body with or without a
\* 'subscriptions' list.
Fetches ==
  {[status |-> st, body |-> [present |-> FALSE, codes |-> {}]] :
     st \in {"transport_error", "http_error", "not_json"}}
  \cup {[status |-> "ok", body |-> b] : b \in SubscriptionClaims}

VARIABLES subscription_endpoint, cb

cvars == <<subscription_endpoint, cb>>

\* SumoOIDCAuthBackend.authenticate: "declined" is its return None,
\* "delegated" the call of the base class's authenticate.
Sumo_authenticate(request) ==
  IF request.present /\ ~(request.path = OidcCallback)
  THEN "declined" ELSE "delegated"

FXA_authenticate_any_path(request) == "delegated"

\* FXAAuthBackend.authenticate
FXA_authenticate(request) ==
  IF request.present /\ request.path = OidcCallback
  THEN "declined" ELSE "delegated"

get_userinfo_reset(user_info, fetch) ==
  IF ~subscription_endpoint THEN [raised |-> FALSE, info |-> user_info]
  ELSE IF fetch.status = "not_json" THEN [raised |-> TRUE, info |-> user_info]
  ELSE [raised |-> FALSE,
        info |-> [user_info EXCEPT !.subscriptions =
                    [present |-> TRUE,
                     codes |-> IF fetch.status = "ok" THEN fetch.body.codes
                               ELSE {}]]]

\* FXAAuthBackend.get_userinfo; user_info is what the base class's
\* get_userinfo returned.  raised is the exception of sub_response.json(),
\* which is outside the try block.
get_userinfo(user_info, fetch) ==
  IF ~subscription_endpoint THEN [raised |-> FALSE, info |-> user_info]
  ELSE IF fetch.status \in {"transport_error", "http_error"}
    THEN [raised |-> FALSE, info |-> user_info]
  ELSE IF fetch.status = "not_json" THEN [raised |-> TRUE, info |-> user_info]
  ELSE [raised |-> FALSE,
        info |-> [user_info EXCEPT !.subscriptions =
                    [present |-> TRUE, codes |-> fetch.body.codes]]]

NoInfo == [uid |-> NoUid, email |-> 0, avatar |-> 0, displayName |-> 0,
           subscriptions |-> [present |-> FALSE, codes |-> {}]]

NoCb == [op |-> "none", request |-> [present |-> FALSE, path |-> ""],
         sumo |-> "none", fxa |-> "none", userinfo |-> "none",
         base |-> NoInfo,
         fetch |-> [status |-> "none",
                    body |-> [present |-> FALSE, codes |-> {}]],
         info |-> NoInfo]

CallbackInit ==
  /\ subscription_endpoint \in BOOLEAN
  /\ cb = NoCb

\* A request reaches the authentication backends.  Each backend declines
\* or goes on; the FxA backend that goes on with a request gets the user
\* info (the base class returns None at once when there is no request).
Callback(request, user_info, fetch) ==
  LET sumo == Sumo_authenticate(request)
      fxa == FXA_authenticate(request)
      fetching == fxa = "delegated" /\ request.present
      got == get_userinfo(user_info, fetch)
  IN
  /\ cb = NoCb
  /\ ~fetching => user_info = NoInfo /\ fetch = NoCb.fetch
  /\ fetching /\ ~subscription_endpoint => fetch = NoCb.fetch
  /\ fetching /\ subscription_endpoint => fetch \in Fetches
  /\ fetching => user_info \in Claims
  /\ cb' = [op |-> "callback", request |-> request, sumo |-> sumo, fxa |-> fxa,
            userinfo |-> IF ~fetching THEN "none"
                         ELSE IF got.raised THEN "raised" ELSE "returned",
            base |-> user_info, fetch |-> fetch,
            info |-> IF fetching /\ ~got.raised THEN got.info ELSE NoInfo]
  /\ UNCHANGED subscription_endpoint

\* The backends have answered: the request is over.
CallbackDone ==
  /\ cb # NoCb
  /\ cb' = NoCb
  /\ UNCHANGED subscription_endpoint

(***************************************************************************)
(* The specifications: one for each part, the other parts at rest.         *)
(***************************************************************************)
vars == <<password, last_login, issued, tlast,
          users, email, is_staff, profile, session_next, call,
          subscription_endpoint, cb>>

FxaAtRest ==
  /\ users = {1}
  /\ email = [u \in UserIds |-> IF u = 1 THEN 1 ELSE 0]
  /\ is_staff = [u \in UserIds |-> FALSE]
  /\ profile = [u \in UserIds |-> NoProfile]
  /\ session_next = "next"
  /\ call = NoCall

CallbackAtRest == subscription_endpoint = TRUE /\ cb = NoCb

TokenNext ==
  \/ \E u \in TUsers : IssueToken(u) /\ UNCHANGED <<fvars, cvars>>
  \/ \E auth \in Credentials : Authenticate(auth) /\ UNCHANGED <<fvars, cvars>>
  \/ Return /\ UNCHANGED <<fvars, cvars>>
  \/ \E u \in TUsers : Login(u) /\ UNCHANGED <<fvars, cvars>>
  \/ \E u \in TUsers : ChangePassword(u) /\ UNCHANGED <<fvars, cvars>>

FxaNext ==
  \/ \E ruser \in users \cup {Anonymous}, claims \in Claims, fail \in FailPoints :
       Resolve(ruser, claims, fail) /\ UNCHANGED <<tvars, cvars>>
  \/ Respond /\ UNCHANGED <<tvars, cvars>>
  \/ StartLogin /\ UNCHANGED <<tvars, cvars>>

CallbackNext ==
  \/ \E request \in Requests, user_info \in Claims \cup {NoInfo},
        fetch \in Fetches \cup {NoCb.fetch} :
          Callback(request, user_info, fetch) /\ UNCHANGED <<tvars, fvars>>
  \/ CallbackDone /\ UNCHANGED <<tvars, fvars>>

TokenSpecInit == TokenInit /\ FxaAtRest /\ CallbackAtRest

FxaSpecInit == FxaInit /\ TokenInit /\ CallbackAtRest

CallbackSpecInit == CallbackInit /\ TokenInit /\ FxaAtRest

SpecToken == TokenSpecInit /\ [][TokenNext]_vars

SpecFxa == FxaSpecInit /\ [][FxaNext]_vars

SpecCallback == CallbackSpecInit /\ [][CallbackNext]_vars


(***************************************************************************)
(* The properties.                                                         *)
(***************************************************************************)

\* C1: for every authentication request exactly one of the two callback
\* backends goes on and the other declines: SumoOIDCAuthBackend goes on
\* exactly when the request's path is the oidc_authentication_callback
\* route, FXAAuthBackend exactly when it is not.
C1_ExactlyOneBackendProceeds ==
  (cb.op = "callback" /\ cb.request.present) =>
    /\ (cb.sumo = "delegated") # (cb.fxa = "delegated")
    /\ cb.sumo \in {"delegated", "declined"}
    /\ cb.fxa \in {"delegated", "declined"}
    /\ (cb.sumo = "delegated") <=> (cb.request.path = OidcCallback)

\* A request off the route was declined by the Sumo backend and taken by
\* the FxA backend, which fetched the user info.
C1_Witness ==
  /\ cb.op = "callback" /\ cb.request.present
  /\ cb.request.path # OidcCallback
  /\ cb.sumo = "declined" /\ cb.fxa = "delegated"
  /\ cb.userinfo = "returned"

\* The other profiles that are migrated and hold the uid of the claims.
OthersWithUid(user, uid) ==
  {o \in users \ {user} :
     profile[o].is_fxa_migrated /\ profile[o].fxa_uid = uid}

\* C2 as claimed: whenever update_user is called with claims whose uid
\* belongs to a different, already-migrated profile, the login is rejected
\* and the updated profile is as it was.
C2_Original ==
  (/\ call.op = "update_user" /\ call.fail = "none"
   /\ OthersWithUid(call.user, call.claims_uid) # {}) =>
    /\ call.result = "none"
    /\ profile[call.user] = call.before.profile

\* C2, amended: when update_user is called for a profile that is not yet
\* migrated, with claims whose uid belongs to a different, already-migrated
\* profile, it returns None, posts the conflict error and leaves every
\* user and profile as it was.
C2_UnmigratedUidConflictRejected ==
  [][(/\ call = NoCall /\ call'.op = "update_user"
      /\ ~profile[call'.user].is_fxa_migrated
      /\ OthersWithUid(call'.user, call'.claims_uid) # {}) =>
       /\ call'.result = "none"
       /\ call'.msgs = <<"error_uid_used">>
       /\ profile' = profile /\ email' = email /\ users' = users]_vars

C2_Witness ==
  /\ call.op = "update_user" /\ call.result = "none"
  /\ call.msgs = <<"error_uid_used">>
  /\ ~call.before.profile.is_fxa_migrated
  /\ OthersWithUid(call.user, call.claims_uid) # {}

\* The other users that hold the email of the claims.
OthersWithEmail(user, e) == {o \in users \ {user} : email[o] = e}

\* C3 as claimed: whenever update_user is called with claims whose email
\* differs from the user's and is held by another user, the update is
\* rejected and the user's email is unchanged.
C3_Original ==
  (/\ call.op = "update_user" /\ call.fail = "none"
   /\ call.before.email # call.claims_email
   /\ OthersWithEmail(call.user, call.claims_email) # {}) =>
    /\ call.result = "none"
    /\ email[call.user] = call.before.email

\* C3, amended: the same for a user who is not staff; the rejection posts
\* a conflict error.
C3_NonStaffEmailConflictRejected ==
  (/\ call.op = "update_user"
   /\ ~is_staff[call.user]
   /\ call.before.email # call.claims_email
   /\ OthersWithEmail(call.user, call.claims_email) # {}) =>
    /\ call.result = "none"
    /\ call.msgs[Len(call.msgs)] \in {"error_email_used", "error_uid_used"}
    /\ email[call.user] = call.before.email

C3_Witness ==
  /\ call.op = "update_user" /\ call.result = "none"
  /\ call.msgs[Len(call.msgs)] = "error_email_used"
  /\ ~is_staff[call.user]
  /\ call.before.email # call.claims_email
  /\ OthersWithEmail(call.user, call.claims_email) # {}

\* C4: after any sequence of FxA authentication attempts no two migrated
\* profiles hold the same fxa_uid (a profile made from claims without a
\* uid holds none).
C4_UidHeldByOneProfile ==
  \A u \in users : \A v \in users \ {u} :
    (/\ profile[u].is_fxa_migrated /\ profile[v].is_fxa_migrated
     /\ profile[u].fxa_uid # NoUid) =>
      profile[u].fxa_uid # profile[v].fxa_uid

\* Two migrated profiles hold uids, and a login with the uid of one of
\* them was resolved to that profile and not to a new one.
C4_Witness ==
  /\ \E u \in users : \E v \in users \ {u} :
       /\ profile[u].is_fxa_migrated /\ profile[v].is_fxa_migrated
       /\ profile[u].fxa_uid # NoUid /\ profile[v].fxa_uid # NoUid
  /\ call.op = "update_user" /\ call.result = "user"
  /\ call.request_user = Anonymous
  /\ call.before.profile.is_fxa_migrated
  /\ call.before.profile.fxa_uid = call.claims_uid

\* C5 as claimed: a persistence failure at any step of update_user leaves
\* the user record, the profile record and the product set as they were.
C5_Original ==
  (call.op = "update_user" /\ call.result = "raised") =>
    /\ email[call.user] = call.before.email
    /\ profile[call.user] = call.before.profile

\* C5, amended: the user record and the profile record are written
\* together or not at all: after a failure the email and the profile's
\* fields are as before the call, and after a success both are written.
\* The product set is replaced before the transaction and is not part of
\* it.
C5_UserAndProfileSavedTogether ==
  /\ (call.op = "update_user" /\ call.result = "raised") =>
       /\ email[call.user] = call.before.email
       /\ [profile[call.user] EXCEPT !.products = call.before.profile.products]
            = call.before.profile
  /\ (call.op = "update_user" /\ call.result = "user") =>
       /\ profile[call.user].is_fxa_migrated
       /\ ~is_staff[call.user] => email[call.user] = call.claims_email

\* profile.save() failed after user.save() had written a new email.
C5_Witness ==
  /\ call.op = "update_user" /\ call.result = "raised"
  /\ call.fail = "profile_save"
  /\ ~is_staff[call.user]
  /\ call.before.email # call.claims_email
  /\ email[call.user] = call.before.email
  /\ profile[call.user].products # call.before.profile.products

\* C6 as claimed: TokenLoginBackend.authenticate never raises.
C6_NeverRaises == tlast.outcome # "raised"

\* The password and the last login of the user are those the credential
\* was issued under.
Current(c) ==
  /\ password[c.user] = c.password
  /\ last_login[c.user] = c.last_login

\* Another credential was issued to the user after c.
Reissued(c) == \E d \in issued : d.user = c.user /\ d.n > c.n

\* C7 as claimed: a credential of get_auth_str authenticates to its user
\* while the user's state is unchanged, and yields no user after the
\* password changed or another login token was issued.
C7_Original ==
  \A c \in issued :
    /\ Current(c) /\ ~Reissued(c) =>
         authenticate(c.auth) = [outcome |-> "user", user |-> c.user]
    /\ (~Current(c) \/ Reissued(c)) => authenticate(c.auth).outcome = "none"

\* C7, amended: a credential of get_auth_str authenticates to its user
\* while the user's state is unchanged, and yields no user after the
\* password changed or the user logged in; issuing another token does not
\* end it.
C7_CredentialBoundToUserState ==
  \A c \in issued :
    /\ Current(c) =>
         authenticate(c.auth) = [outcome |-> "user", user |-> c.user]
    /\ ~Current(c) => authenticate(c.auth).outcome = "none"

\* A credential issued before a login was turned down, while one issued
\* after it is good.
C7_Witness ==
  /\ tlast.outcome = "none"
  /\ \E c \in issued, d \in issued :
       /\ c.user = d.user /\ d.n > c.n
       /\ ~Current(c) /\ Current(d)
       /\ tlast.auth = c.auth

\* C8: after every successful create_user or update_user the profile's
\* products are exactly the catalog products whose codename is in the
\* claims' subscriptions; without the claim the set is empty.
C8_ProductsReplaced ==
  (call.op \in {"create_user", "update_user"} /\ call.result = "user") =>
    profile[call.user].products =
      IF call.subscriptions.present
      THEN {p \in Products : p \in call.subscriptions.codes}
      ELSE {}

\* An update took away a product the claims did not name.
C8_Witness ==
  /\ call.op = "update_user" /\ call.result = "user"
  /\ call.before.profile.products # {}
  /\ call.subscriptions.present
  /\ call.subscriptions.codes # {}
  /\ profile[call.user].products = {}

\* C9: with a subscription endpoint configured, a failed fetch does not
\* raise and returns the base flow's user info as it was, and a fetch that
\* succeeds returns the fetched subscriptions in place of the base ones.
C9_SubscriptionEnrichment ==
  (/\ cb.op = "callback" /\ cb.userinfo # "none"
   /\ subscription_endpoint) =>
    /\ cb.fetch.status \in {"transport_error", "http_error"} =>
         cb.userinfo = "returned" /\ cb.info = cb.base
    /\ cb.fetch.status = "ok" =>
         /\ cb.userinfo = "returned"
         /\ cb.info.subscriptions.present
         /\ cb.info.subscriptions.codes =
              (IF cb.fetch.body.present THEN cb.fetch.body.codes ELSE {})
         /\ [cb.info EXCEPT !.subscriptions = cb.base.subscriptions] = cb.base

\* A fetched list took the place of a different one of the base claims.
C9_Witness ==
  /\ cb.op = "callback" /\ cb.userinfo = "returned"
  /\ subscription_endpoint
  /\ cb.fetch.status = "ok" /\ cb.fetch.body.present
  /\ cb.base.subscriptions.present
  /\ cb.base.subscriptions.codes # cb.fetch.body.codes
  /\ cb.info.subscriptions.codes = cb.fetch.body.codes

\* C10 as claimed: an update_user that returns None has written only the
\* one conflict error: the session's oidc_login_next is as before and no
\* fxa_notification_updated notice is posted.
C10_RejectionWritesOnlyTheError ==
  [][(/\ call = NoCall /\ call'.op = "update_user"
      /\ call'.result = "none") =>
       /\ session_next' = session_next
       /\ Len(call'.msgs) = 1
       /\ call'.msgs[1] \in {"error_uid_used", "error_email_used"}]_vars

====
